---- MODULE Spec2Model ----
(***************************************************************************)
(* Risk scoring engine of the UPI FraudGuard dashboard:                    *)
(*   calculateRiskScore  - per-transaction scorer                          *)
(*   RiskSummaryCard     - portfolio summary over a scored batch           *)
(* JavaScript values are modelled as follows: an object is a record whose  *)
(* DOMAIN is the set of properties it has (reading an absent property      *)
(* gives undefined, which is falsy and compares false with every number),  *)
(* null is the record Null, NaN is the record NaN, and a joined string is  *)
(* the TLA+ string built with \o.                                          *)
(***************************************************************************)
EXTENDS Integers, Sequences, FiniteSets, TLC

VARIABLES
    tx,            \* the transaction handed to calculateRiskScore
    risk,          \* the object calculateRiskScore returned (Null before)
    score,         \* the clamped score entering the level branch
    level,         \* [level, colorClass] chosen by the level branch
    props,         \* the props object handed to RiskSummaryCard
    summary,       \* what RiskSummaryCard rendered (Null: nothing)
    pc,            \* position of the component under evaluation
    draw,          \* clock reading and random draws of one generator iteration
    dashboard,     \* DashboardPage state and its outstanding timers
    rawTransactions,        \* the batch being scored record by record
    callPc,                 \* position of the scoring call of each record
    frame,                  \* score and factors of each scoring call
    processedTransactions,  \* the assessment stored for each record
    form,          \* TransactionForm (scanner) state
    submitPc,      \* position of the scanner's handleSubmit
    requests,      \* number of requests the scanner has sent
    response       \* the body of the last response the scanner read

scorerVars == <<tx, risk, score, level>>
summaryVars == <<props, summary>>
generatorVars == <<draw>>
dashboardVars == <<dashboard>>
parallelVars == <<rawTransactions, callPc, frame, processedTransactions>>
scannerVars == <<form, submitPc, requests, response>>

vars == <<scorerVars, summaryVars, pc, generatorVars, dashboardVars,
          parallelVars, scannerVars>>

Null == [isNull |-> TRUE]
NaN == [isNaN |-> TRUE]
\* an object with no property at all
NoProps == [g \in {} |-> TRUE]

\* the components a specification does not exercise stay unmounted
NoScorer == tx = Null /\ risk = Null /\ score = 0 /\ level = Null
NoSummary == props = NoProps /\ summary = Null
NoGenerator == draw = Null
NoDashboard == dashboard = Null
NoParallel ==
    /\ rawTransactions = <<>>
    /\ callPc = <<>>
    /\ frame = <<>>
    /\ processedTransactions = <<>>
NoScanner ==
    /\ form = Null
    /\ submitPc = "unmounted"
    /\ requests = 0
    /\ response = Null

\* ------------------------------------------------------------------------
\* Bounds
\* ------------------------------------------------------------------------
MaxBatch == 8
\* records generated per batch in the dashboard specification
MockLoop == 2
\* fetches the dashboard starts in one behaviour
MaxFetches == 3
\* rows in a response read by the scanner
MaxRows == 2
\* requests the scanner sends in one behaviour
MaxRequests == 2

\* ------------------------------------------------------------------------
\* Transactions
\* ------------------------------------------------------------------------
Fields == {"amount", "type", "isNewBeneficiary", "isLateNight"}

Amounts == {-1, 0, 50, 5000, 5001, 15000, 15001, 25000}

FullTransactions ==
    [amount : Amounts, type : {"Debit", "Credit"},
     isNewBeneficiary : BOOLEAN, isLateNight : BOOLEAN]

\* the object t without its property f
Without(t, f) == [g \in (DOMAIN t) \ {f} |-> t[g]]

Transactions ==
    FullTransactions \cup {Without(t, f) : t \in FullTransactions, f \in Fields}

\* a record the data model admits: every field present, amount >= 0
WellFormed(t) == DOMAIN t = Fields /\ t.amount >= 0

\* ------------------------------------------------------------------------
\* JavaScript helpers
\* ------------------------------------------------------------------------
\* t.amount > n  (undefined > n is false)
amountGt(t, n) == "amount" \in DOMAIN t /\ t.amount > n

\* if (t.f)  (undefined is falsy)
truthy(t, f) == f \in DOMAIN t /\ t[f]

\* t.type === s
typeIs(t, s) == "type" \in DOMAIN t /\ t.type = s

Min(a, b) == IF a < b THEN a ELSE b

RECURSIVE join(_, _)
\* Array.prototype.join
join(labels, sep) ==
    IF labels = <<>> THEN ""
    ELSE IF Len(labels) = 1 THEN labels[1]
    ELSE labels[1] \o sep \o join(Tail(labels), sep)

\* ------------------------------------------------------------------------
\* calculateRiskScore, rule by rule; acc is [score, factors]
\* ------------------------------------------------------------------------
\* the tiers compared with >= instead of >
amountRule_ge(acc, t) ==
    IF "amount" \in DOMAIN t /\ t.amount >= 15000
    THEN [score |-> acc.score + 35,
          factors |-> Append(acc.factors, "Large Amount (High)")]
    ELSE IF "amount" \in DOMAIN t /\ t.amount >= 5000
    THEN [score |-> acc.score + 15,
          factors |-> Append(acc.factors, "Large Amount (Medium)")]
    ELSE acc

amountRule(acc, t) ==
    IF amountGt(t, 15000)
    THEN [score |-> acc.score + 35,
          factors |-> Append(acc.factors, "Large Amount (High)")]
    ELSE IF amountGt(t, 5000)
    THEN [score |-> acc.score + 15,
          factors |-> Append(acc.factors, "Large Amount (Medium)")]
    ELSE acc

\* the beneficiary weight mistyped as 30
beneficiaryRule_30(acc, t) ==
    IF truthy(t, "isNewBeneficiary")
    THEN [score |-> acc.score + 30,
          factors |-> Append(acc.factors, "New/Untrusted Beneficiary")]
    ELSE acc

beneficiaryRule(acc, t) ==
    IF truthy(t, "isNewBeneficiary")
    THEN [score |-> acc.score + 40,
          factors |-> Append(acc.factors, "New/Untrusted Beneficiary")]
    ELSE acc

timingRule(acc, t) ==
    IF truthy(t, "isLateNight")
    THEN [score |-> acc.score + 20,
          factors |-> Append(acc.factors,
                             "Unusual Transaction Time (Late Night)")]
    ELSE acc

\* score -= 5 instead of score += 5
directionRule_minus(acc, t) ==
    IF typeIs(t, "Debit")
    THEN [score |-> acc.score - 5, factors |-> acc.factors]
    ELSE acc

\* the Debit rule pushing a label like every other rule
directionRule_label(acc, t) ==
    IF typeIs(t, "Debit")
    THEN [score |-> acc.score + 5,
          factors |-> Append(acc.factors, "Debit Transaction")]
    ELSE acc

directionRule(acc, t) ==
    IF typeIs(t, "Debit")
    THEN [score |-> acc.score + 5, factors |-> acc.factors]
    ELSE acc

ScoreCap == 100

\* score = Math.min(score, 100)
clampScore(s) == Min(s, ScoreCap)

\* the High threshold compared with >= instead of >
riskLevel_ge65(s) ==
    IF s >= 65 THEN [level |-> "High", colorClass |-> "badge badge-high"]
    ELSE IF s > 30 THEN [level |-> "Medium", colorClass |-> "badge badge-medium"]
    ELSE [level |-> "Low", colorClass |-> "badge badge-low"]

\* the Medium threshold compared with >= instead of >
riskLevel_ge30(s) ==
    IF s > 65 THEN [level |-> "High", colorClass |-> "badge badge-high"]
    ELSE IF s >= 30 THEN [level |-> "Medium", colorClass |-> "badge badge-medium"]
    ELSE [level |-> "Low", colorClass |-> "badge badge-low"]

\* the if / else if / else over the clamped score
riskLevel(s) ==
    IF s > 65 THEN [level |-> "High", colorClass |-> "badge badge-high"]
    ELSE IF s > 30 THEN [level |-> "Medium", colorClass |-> "badge badge-medium"]
    ELSE [level |-> "Low", colorClass |-> "badge badge-low"]

\* factors.length > 0 ? factors.join(", ") : "Standard Behavior"
factorsText(factors) ==
    IF Len(factors) > 0 THEN join(factors, ", ") ELSE "Standard Behavior"

calculateRiskScore(t) ==
    LET acc == directionRule(
                 timingRule(
                   beneficiaryRule(
                     amountRule([score |-> 0, factors |-> <<>>], t), t), t), t)
        s == clampScore(acc.score)
        l == riskLevel(s)
    IN [score |-> s, level |-> l.level, colorClass |-> l.colorClass,
        factors |-> factorsText(acc.factors)]

\* ------------------------------------------------------------------------
\* Specification of the scorer: one call of calculateRiskScore
\* ------------------------------------------------------------------------
InitScorer ==
    /\ tx \in Transactions
    /\ risk = Null
    /\ score = 0
    /\ level = Null
    /\ props = NoProps
    /\ summary = Null
    /\ pc = "call"
    /\ NoGenerator /\ NoDashboard /\ NoParallel /\ NoScanner

Score ==
    /\ pc = "call"
    /\ risk' = calculateRiskScore(tx)
    /\ pc' = "scored"
    /\ UNCHANGED <<tx, score, level, props, summary,
                   generatorVars, dashboardVars, parallelVars, scannerVars>>

NextScorer == Score

SpecScorer == InitScorer /\ [][NextScorer]_vars

TypeOKScorer ==
    /\ tx \in Transactions
    /\ pc \in {"call", "scored"}
    /\ pc = "call" => risk = Null
    /\ pc = "scored" => DOMAIN risk = {"score", "level", "colorClass", "factors"}

\* ------------------------------------------------------------------------
\* generateMockTransactions.  The clock is [day, hour]: a day number and the
\* local hour; subtracting whole days keeps the hour.  A date is modelled by
\* its day number and a time by its hour, so `${date} ${time}` orders as
\* 24 * date + time.  Each iteration has its own random draws.
\* ------------------------------------------------------------------------
mockBeneficiaries ==
    <<"Manoj_KiranaStore@okicici", "Priya_Tuition@ybl", "ElectricityBill@biz",
      "NetflixSubscription@paytm", "OldFriendRamesh@axl", "NEW_MERCHANT_XYZ@sbi">>

\* String.prototype.includes
includes(str, sub) ==
    \E i \in 1..(Len(str) - Len(sub) + 1) :
        SubSeq(str, i, i + Len(sub) - 1) = sub

\* the late hours tested with >, missing 23
isLateNight_gt(hour) == hour > 23 \/ hour <= 5

\* date.getHours() >= 23 || date.getHours() <= 5
isLateNight(hour) == hour >= 23 \/ hour <= 5

\* one iteration of the loop: the record pushed for index i
mockTransaction(i, clock, d) ==
    LET beneficiary == mockBeneficiaries[d.beneficiaryIndex + 1]
    IN [id |-> "TXN" \o ToString(24 * clock.day + clock.hour) \o "-"
                  \o ToString(i) \o ToString(d.suffix),
        date |-> clock.day - d.daysAgo,
        time |-> clock.hour,
        amount |-> d.amount,
        type |-> IF d.typeDraw = 0 THEN "Debit" ELSE "Credit",
        beneficiary |-> beneficiary,
        isNewBeneficiary |-> includes(beneficiary, "NEW_MERCHANT"),
        isLateNight |-> isLateNight(clock.hour)]

\* ------------------------------------------------------------------------
\* Specification of the generator: one iteration at every hour of the day,
\* the record then scored
\* ------------------------------------------------------------------------
Hours == 0..23

Clocks == [day : {100}, hour : Hours]

ItemDraws ==
    [daysAgo : {1, 30}, amount : {50, 5001, 25000},
     beneficiaryIndex : 0..(Len(mockBeneficiaries) - 1),
     typeDraw : {0, 1}, suffix : {100}]

InitGenerator ==
    /\ draw \in [clock : Clocks, item : ItemDraws]
    /\ NoScorer /\ NoSummary
    /\ pc = "loop"
    /\ NoDashboard /\ NoParallel /\ NoScanner

Generate ==
    /\ pc = "loop"
    /\ tx' = mockTransaction(0, draw.clock, draw.item)
    /\ pc' = "call"
    /\ UNCHANGED <<risk, score, level, summaryVars, generatorVars,
                   dashboardVars, parallelVars, scannerVars>>

NextGenerator == Generate \/ Score

SpecGenerator == InitGenerator /\ [][NextGenerator]_vars

\* ------------------------------------------------------------------------
\* RiskSummaryCard
\* ------------------------------------------------------------------------
\* { ...txn, risk: calculateRiskScore(txn) }
withRisk(t) ==
    [g \in (DOMAIN t) \cup {"risk"} |->
        IF g = "risk" THEN calculateRiskScore(t) ELSE t[g]]

\* rawTransactions.map(...)
processTransactions(raw) == [i \in 1..Len(raw) |-> withRisk(raw[i])]

\* only the missing prop is caught, not the empty array
noBatch_nolen(p) == "transactions" \notin DOMAIN p

\* !transactions || transactions.length === 0
noBatch(p) == "transactions" \notin DOMAIN p \/ Len(p.transactions) = 0

IsHigh(t) == t.risk.level = "High"

IsMedium(t) == t.risk.level = "Medium"

IsNotLow(t) == t.risk.level # "Low"

highRiskCount(ts) == Len(SelectSeq(ts, IsHigh))

\* the filter keeping every level but Low
mediumRiskCount_notLow(ts) == Len(SelectSeq(ts, IsNotLow))

mediumRiskCount(ts) == Len(SelectSeq(ts, IsMedium))

\* Math.floor in place of Math.round
mathRound_floor(n, d) == IF d = 0 THEN NaN ELSE n \div d

\* Math.round(n / d): the nearest integer, a half going up; 0 / 0 is NaN.
\* The quotient is exact here; the double computed by the code rounds to
\* the same integer for every d below 40.
mathRound(n, d) == IF d = 0 THEN NaN ELSE (2 * n + d) \div (2 * d)

\* the share of High assessments instead of the rest
safePercentage_highShare(total, high) == mathRound(100 * high, total)

\* Math.round(((total - high) / total) * 100)
safePercentage(total, high) == mathRound(100 * (total - high), total)

\* `${safePercentage}`
percentText(total, high) ==
    IF total = 0 THEN "NaN" ELSE ToString(safePercentage(total, high))

\* the alert test off by one
hasHighRisk_gt1(high) == high > 1

\* highRiskCount > 0, the test behind message, icon, box and text class
hasHighRisk(high) == high > 0

riskMessage(total, high) ==
    IF hasHighRisk(high)
    THEN "ALERT: " \o ToString(high) \o " transactions flagged as HIGH Risk."
    ELSE "Overall security is " \o percentText(total, high)
             \o "%. No HIGH risk transactions found."

RiskSummaryCard(p) ==
    IF noBatch(p) THEN Null
    ELSE LET ts == p.transactions
             high == highRiskCount(ts)
             medium == mediumRiskCount(ts)
             total == Len(ts)
         IN [highRiskCount |-> high,
             mediumRiskCount |-> medium,
             totalTransactions |-> total,
             safePercentage |-> safePercentage(total, high),
             riskMessage |-> riskMessage(total, high),
             icon |-> IF hasHighRisk(high)
                      THEN "risk-summary-icon risk-summary-icon--alert"
                      ELSE "risk-summary-icon risk-summary-icon--ok",
             boxClass |-> IF hasHighRisk(high)
                          THEN "risk-summary risk-summary--alert"
                          ELSE "risk-summary risk-summary--ok",
             textClass |-> IF hasHighRisk(high)
                           THEN "risk-summary-text risk-summary-text--alert"
                           ELSE "risk-summary-text risk-summary-text--ok"]

\* ------------------------------------------------------------------------
\* Specification of the summary: one render of RiskSummaryCard over a batch
\* scored by calculateRiskScore
\* ------------------------------------------------------------------------
\* one generated transaction per level: scores 0, 45 and 80
LowSample ==
    [amount |-> 50, type |-> "Credit",
     isNewBeneficiary |-> FALSE, isLateNight |-> FALSE]

MediumSample ==
    [amount |-> 50, type |-> "Debit",
     isNewBeneficiary |-> TRUE, isLateNight |-> FALSE]

HighSample ==
    [amount |-> 15001, type |-> "Debit",
     isNewBeneficiary |-> TRUE, isLateNight |-> FALSE]

SampleTransactions == {LowSample, MediumSample, HighSample}

RawBatches == UNION {[1..n -> SampleTransactions] : n \in 0..MaxBatch}

InitSummary ==
    /\ tx = Null
    /\ risk = Null
    /\ score = 0
    /\ level = Null
    /\ props \in {NoProps} \cup
            {[transactions |-> processTransactions(raw)] : raw \in RawBatches}
    /\ summary = Null
    /\ pc = "props"
    /\ NoGenerator /\ NoDashboard /\ NoParallel /\ NoScanner

Render ==
    /\ pc = "props"
    /\ summary' = RiskSummaryCard(props)
    /\ pc' = "rendered"
    /\ UNCHANGED <<tx, risk, score, level, props,
                   generatorVars, dashboardVars, parallelVars, scannerVars>>

NextSummary == Render

SpecSummary == InitSummary /\ [][NextSummary]_vars

\* ------------------------------------------------------------------------
\* Specification of the summary at the generator's batch size: one render
\* over every mix of levels in a batch of up to MockCount records, the
\* records of a level grouped together
\* ------------------------------------------------------------------------
\* for (let i = 0; i < 20; i++)
MockCount == 20

GroupedBatch(high, medium, low) ==
    [i \in 1..(high + medium + low) |->
        IF i <= high THEN HighSample
        ELSE IF i <= high + medium THEN MediumSample
        ELSE LowSample]

GroupedBatches ==
    {GroupedBatch(c[1], c[2], c[3]) :
        c \in {d \in (0..MockCount) \X (0..MockCount) \X (0..MockCount) :
                  d[1] + d[2] + d[3] <= MockCount}}

InitSummaryGrouped ==
    /\ NoScorer
    /\ props \in {[transactions |-> processTransactions(raw)] :
                     raw \in GroupedBatches}
    /\ summary = Null
    /\ pc = "props"
    /\ NoGenerator /\ NoDashboard /\ NoParallel /\ NoScanner

SpecSummaryGrouped == InitSummaryGrouped /\ [][NextSummary]_vars

\* ------------------------------------------------------------------------
\* generateMockTransactions as a whole: the loop, then the sort
\* ------------------------------------------------------------------------
\* new Date(`${date} ${time}`)
timeKey(t) == 24 * t.date + t.time

\* x placed behind every record that is not older than it
insertByTime(sorted, x) ==
    LET n == Cardinality({j \in 1..Len(sorted) :
                             timeKey(sorted[j]) >= timeKey(x)})
    IN SubSeq(sorted, 1, n) \o <<x>> \o SubSeq(sorted, n + 1, Len(sorted))

RECURSIVE sortNewestFirst(_)
\* transactions.sort((a, b) => new Date(b) - new Date(a)), a stable sort
sortNewestFirst(ts) ==
    IF ts = <<>> THEN <<>>
    ELSE insertByTime(sortNewestFirst(SubSeq(ts, 1, Len(ts) - 1)),
                      ts[Len(ts)])

generateMockTransactions(clock, draws) ==
    sortNewestFirst([i \in 1..Len(draws) |->
                        mockTransaction(i - 1, clock, draws[i])])

\* ------------------------------------------------------------------------
\* DashboardPage.  dashboard holds the five useState values, whether the
\* page is mounted, and the timers: setTimeout callbacks of equal delay run
\* in the order they were scheduled, so started and completed count them.
\* ------------------------------------------------------------------------
ErrorOf(message) == [message |-> message]

UpiIds == {"", "user123@bank", "user124@bank"}

\* the body of handleFetchTransactions up to and including setTimeout
handleFetchTransactions(s) ==
    IF s.upiId = ""
    THEN [s EXCEPT !.error = ErrorOf("Please enter a valid UPI ID.")]
    ELSE [s EXCEPT !.isLoading = TRUE,
                   !.error = Null,
                   !.transactions = <<>>,
                   !.isDataFetched = FALSE,
                   !.started = @ + 1]

\* the try block: neither generateMockTransactions nor the map can throw
tryBlock(clock, draws) ==
    [threw |-> FALSE,
     processed |-> processTransactions(generateMockTransactions(clock, draws))]

\* the callback without its finally clause
timerCallback_nofinally(s, outcome) ==
    IF outcome.threw
    THEN [s EXCEPT !.error = ErrorOf("Failed to process data. Try again."),
                   !.completed = @ + 1]
    ELSE [s EXCEPT !.transactions = outcome.processed,
                   !.isDataFetched = TRUE,
                   !.completed = @ + 1]

\* the setTimeout callback: try / catch / finally
timerCallback(s, outcome) ==
    IF outcome.threw
    THEN [s EXCEPT !.error = ErrorOf("Failed to process data. Try again."),
                   !.isLoading = FALSE,
                   !.completed = @ + 1]
    ELSE [s EXCEPT !.transactions = outcome.processed,
                   !.isDataFetched = TRUE,
                   !.isLoading = FALSE,
                   !.completed = @ + 1]

\* useMemo: what RiskSummaryCard receives (no transactions prop for null)
summaryData(s) ==
    IF ~s.isDataFetched \/ Len(s.transactions) = 0 THEN NoProps
    ELSE [transactions |-> s.transactions]

\* the condition under which summary and table are rendered
contentShown(s) ==
    s.isDataFetched /\ ~s.isLoading /\ Len(s.transactions) > 0

DashboardClocks == [day : {100}, hour : {2, 14}]

DashboardDraws ==
    [daysAgo : {1, 2}, amount : {25000}, beneficiaryIndex : {0, 5},
     typeDraw : {0}, suffix : {100}]

Init ==
    /\ dashboard = [upiId |-> "user123@bank",
                    transactions |-> <<>>,
                    isLoading |-> FALSE,
                    error |-> Null,
                    isDataFetched |-> FALSE,
                    mounted |-> FALSE,
                    started |-> 0,
                    completed |-> 0]
    /\ NoScorer /\ NoSummary
    /\ pc = "dashboard"
    /\ NoGenerator /\ NoParallel /\ NoScanner

\* first render: the effect runs handleFetchTransactions
Mount ==
    /\ ~dashboard.mounted
    /\ dashboard' = handleFetchTransactions([dashboard EXCEPT !.mounted = TRUE])
    /\ UNCHANGED <<scorerVars, summaryVars, pc, generatorVars, parallelVars,
                   scannerVars>>

\* onChange of the input: setUpiId, then the effect runs the new callback
SetUpiId ==
    /\ dashboard.mounted
    /\ dashboard.started < MaxFetches
    /\ \E v \in UpiIds \ {dashboard.upiId} :
           dashboard' = handleFetchTransactions([dashboard EXCEPT !.upiId = v])
    /\ UNCHANGED <<scorerVars, summaryVars, pc, generatorVars, parallelVars,
                   scannerVars>>

\* onClick of the button, disabled={isLoading || !upiId}
ClickFetch ==
    /\ dashboard.mounted
    /\ dashboard.started < MaxFetches
    /\ ~dashboard.isLoading
    /\ dashboard.upiId # ""
    /\ dashboard' = handleFetchTransactions(dashboard)
    /\ UNCHANGED <<scorerVars, summaryVars, pc, generatorVars, parallelVars,
                   scannerVars>>

\* what the try block can produce, over the clock and the random draws
TimerOutcomes ==
    {tryBlock(clock, draws) :
        clock \in DashboardClocks, draws \in [1..MockLoop -> DashboardDraws]}

\* the oldest outstanding timer fires
TimerFires ==
    /\ dashboard.started > dashboard.completed
    /\ \E outcome \in TimerOutcomes :
           dashboard' = timerCallback(dashboard, outcome)
    /\ UNCHANGED <<scorerVars, summaryVars, pc, generatorVars, parallelVars,
                   scannerVars>>

Next == Mount \/ SetUpiId \/ ClickFetch \/ TimerFires

Spec == Init /\ [][Next]_vars

\* a scheduled timer callback is eventually run
FairSpec == Spec /\ WF_vars(Mount) /\ WF_vars(TimerFires)

\* ------------------------------------------------------------------------
\* Specification of a batch scored record by record, the calls of
\* calculateRiskScore interleaved statement by statement in any order.
\* rawTransactions.map runs them one after the other, which is one of the
\* interleavings.  Each call has its own score and factors (frame).
\* ------------------------------------------------------------------------
\* { ...txn, risk: r }
attachRisk(t, r) ==
    [g \in (DOMAIN t) \cup {"risk"} |-> IF g = "risk" THEN r ELSE t[g]]

\* score and factors declared outside the function, shared by all calls
frameOf_shared(i) == 1

\* let score, const factors: locals of the call scoring record i
frameOf(i) == i

ParallelDraws ==
    [daysAgo : {1, 2}, amount : {50, 25000}, beneficiaryIndex : {0, 5},
     typeDraw : {0}, suffix : {100}]

ParallelBatches ==
    {generateMockTransactions(clock, draws) :
        clock \in [day : {100}, hour : {14}],
        draws \in [1..MockLoop -> ParallelDraws]}

InitParallel ==
    /\ rawTransactions \in ParallelBatches
    /\ callPc = [i \in 1..MockLoop |-> "start"]
    /\ frame = [i \in 1..MockLoop |-> Null]
    /\ processedTransactions = [i \in 1..MockLoop |-> Null]
    /\ NoScorer /\ NoSummary
    /\ pc = "map"
    /\ NoGenerator /\ NoDashboard /\ NoScanner

\* the call for record i is at position from: its frame becomes f
CallStep(i, from, to, f) ==
    /\ callPc[i] = from
    /\ callPc' = [callPc EXCEPT ![i] = to]
    /\ frame' = [frame EXCEPT ![frameOf(i)] = f]
    /\ UNCHANGED <<rawTransactions, processedTransactions, scorerVars,
                   summaryVars, pc, generatorVars, dashboardVars, scannerVars>>

Enter ==
    \E i \in 1..MockLoop :
        CallStep(i, "start", "amount", [score |-> 0, factors |-> <<>>])

ApplyAmount ==
    \E i \in 1..MockLoop :
        CallStep(i, "amount", "beneficiary",
                 amountRule(frame[frameOf(i)], rawTransactions[i]))

ApplyBeneficiary ==
    \E i \in 1..MockLoop :
        CallStep(i, "beneficiary", "timing",
                 beneficiaryRule(frame[frameOf(i)], rawTransactions[i]))

ApplyTiming ==
    \E i \in 1..MockLoop :
        CallStep(i, "timing", "direction",
                 timingRule(frame[frameOf(i)], rawTransactions[i]))

ApplyDirection ==
    \E i \in 1..MockLoop :
        CallStep(i, "direction", "return",
                 directionRule(frame[frameOf(i)], rawTransactions[i]))

\* clamp, level, return; the result stored at the record's index
Return ==
    \E i \in 1..MockLoop :
        /\ callPc[i] = "return"
        /\ LET acc == frame[frameOf(i)]
               s == clampScore(acc.score)
               l == riskLevel(s)
               r == [score |-> s, level |-> l.level,
                     colorClass |-> l.colorClass,
                     factors |-> factorsText(acc.factors)]
           IN processedTransactions' =
                  [processedTransactions EXCEPT
                      ![i] = attachRisk(rawTransactions[i], r)]
        /\ callPc' = [callPc EXCEPT ![i] = "done"]
        /\ UNCHANGED <<rawTransactions, frame, scorerVars, summaryVars, pc,
                       generatorVars, dashboardVars, scannerVars>>

NextParallel ==
    \/ Enter
    \/ ApplyAmount
    \/ ApplyBeneficiary
    \/ ApplyTiming
    \/ ApplyDirection
    \/ Return

SpecParallel == InitParallel /\ [][NextParallel]_vars

\* ------------------------------------------------------------------------
\* TransactionForm (the scanner) and its handleSubmit.  A response body is
\* [kind, rows]: an array of rows, null, a non-array object, or a body
\* that does not parse.  A null property of a row is modelled as an absent
\* one (?? treats both alike).
\* ------------------------------------------------------------------------
LowerCase == "abcdefghijklmnopqrstuvwxyz"

UpperCase == "ABCDEFGHIJKLMNOPQRSTUVWXYZ"

upperChar(c) ==
    IF \E k \in 1..Len(LowerCase) : SubSeq(LowerCase, k, k) = c
    THEN LET k == CHOOSE k \in 1..Len(LowerCase) : SubSeq(LowerCase, k, k) = c
         IN SubSeq(UpperCase, k, k)
    ELSE c

RECURSIVE toUpperCase(_)
\* String.prototype.toUpperCase
toUpperCase(str) ==
    IF Len(str) = 0 THEN ""
    ELSE upperChar(SubSeq(str, 1, 1)) \o toUpperCase(SubSeq(str, 2, Len(str)))

\* || in place of ??: a risk_score of 0 is skipped
riskScoreOf_or(t) ==
    IF "risk_score" \in DOMAIN t /\ t.risk_score # 0 THEN t.risk_score
    ELSE IF "riskScore" \in DOMAIN t /\ t.riskScore # 0 THEN t.riskScore
    ELSE 0

\* t.risk_score ?? t.riskScore ?? 0
riskScoreOf(t) ==
    IF "risk_score" \in DOMAIN t THEN t.risk_score
    ELSE IF "riskScore" \in DOMAIN t THEN t.riskScore
    ELSE 0

\* the riskLevel closure
riskLevelOf(t) ==
    LET lvl == toUpperCase(IF "risk_level" \in DOMAIN t THEN t.risk_level ELSE "")
    IN IF lvl = "HIGH" THEN [label |-> "HIGH", className |-> "badge badge-high"]
       ELSE IF lvl = "MEDIUM"
       THEN [label |-> "MEDIUM", className |-> "badge badge-medium"]
       ELSE [label |-> "LOW", className |-> "badge badge-low"]

\* the data.map callback
mapRow(t) ==
    [g \in (DOMAIN t) \cup {"riskScore", "riskLevel"} |->
        IF g = "riskScore" THEN riskScoreOf(t)
        ELSE IF g = "riskLevel" THEN riskLevelOf(t)
        ELSE t[g]]

\* x placed behind every row whose riskScore is not lower
insertByRisk(sorted, x) ==
    LET n == Cardinality({j \in 1..Len(sorted) :
                             sorted[j].riskScore >= x.riskScore})
    IN SubSeq(sorted, 1, n) \o <<x>> \o SubSeq(sorted, n + 1, Len(sorted))

RECURSIVE sortByRisk(_)
\* mapped.sort((a, b) => b.riskScore - a.riskScore), a stable sort
sortByRisk(rows) ==
    IF rows = <<>> THEN <<>>
    ELSE insertByRisk(sortByRisk(SubSeq(rows, 1, Len(rows) - 1)),
                      rows[Len(rows)])

\* catch, then finally
catchFinally(f) ==
    [f EXCEPT !.error =
                  ErrorOf("Failed to fetch data from backend. Please try again."),
              !.loading = FALSE]

\* the empty-UPI-ID path returning without setLoading(false)
handleSubmitStart_stuck(f) ==
    LET g == [f EXCEPT !.error = Null, !.loading = TRUE, !.transactions = <<>>]
    IN IF g.upiId = ""
       THEN [g EXCEPT !.error = ErrorOf("Please enter a UPI ID.")]
       ELSE g

\* handleSubmit up to the fetch call
handleSubmitStart(f) ==
    LET g == [f EXCEPT !.error = Null, !.loading = TRUE, !.transactions = <<>>]
    IN IF g.upiId = ""
       THEN [g EXCEPT !.error = ErrorOf("Please enter a UPI ID."),
                      !.loading = FALSE]
       ELSE g

\* handleSubmit from the value of res.json() on
handleSubmitData(f, data) ==
    IF data.kind = "invalid" THEN catchFinally(f)
    ELSE IF data.kind = "null" \/ (data.kind = "array" /\ Len(data.rows) = 0)
    THEN [f EXCEPT !.error = ErrorOf("No recent transactions found for "
                                        \o f.upiId \o "."),
                   !.loading = FALSE]
    ELSE IF data.kind = "object" THEN catchFinally(f)
    ELSE [f EXCEPT !.transactions =
                       sortByRisk([i \in 1..Len(data.rows) |->
                                      mapRow(data.rows[i])]),
                   !.loading = FALSE]

\* rows the backend may send, before their id
RowShapes ==
    {[risk_score |-> 90, risk_level |-> "high"],
     [risk_score |-> 40, risk_level |-> "Medium"],
     [risk_score |-> 0, riskScore |-> 70, risk_level |-> "HIGH"],
     [riskScore |-> 70, risk_level |-> "low"],
     [risk_score |-> 40, risk_level |-> "critical"],
     [amount |-> 10]}

withId(t, i) == [g \in (DOMAIN t) \cup {"id"} |-> IF g = "id" THEN i ELSE t[g]]

ResponseBodies ==
    {[kind |-> k, rows |-> <<>>] : k \in {"invalid", "null", "object"}}
    \cup {[kind |-> "array", rows |-> [i \in 1..Len(shapes) |-> withId(shapes[i], i)]] :
              shapes \in UNION {[1..m -> RowShapes] : m \in 0..MaxRows}}

InitScanner ==
    /\ form = [upiId |-> "", loading |-> FALSE,
               transactions |-> <<>>, error |-> Null]
    /\ submitPc = "idle"
    /\ requests = 0
    /\ response = Null
    /\ NoScorer /\ NoSummary
    /\ pc = "scanner"
    /\ NoGenerator /\ NoDashboard /\ NoParallel

\* onChange of the input, disabled={loading}
ChangeUpiId ==
    /\ ~form.loading
    /\ \E v \in {"", "john.doe@okicici"} \ {form.upiId} :
           form' = [form EXCEPT !.upiId = v]
    /\ UNCHANGED <<submitPc, requests, response, scorerVars, summaryVars, pc,
                   generatorVars, dashboardVars, parallelVars>>

\* onSubmit of the form, its button disabled={loading}
Submit ==
    /\ ~form.loading
    /\ submitPc = "idle"
    /\ requests < MaxRequests
    /\ form' = handleSubmitStart(form)
    /\ IF form.upiId = ""
       THEN UNCHANGED <<submitPc, requests>>
       ELSE submitPc' = "fetch" /\ requests' = requests + 1
    /\ UNCHANGED <<response, scorerVars, summaryVars, pc,
                   generatorVars, dashboardVars, parallelVars>>

\* await fetch(...) settles: rejected, a non-OK status, or an OK response
FetchSettles ==
    /\ submitPc = "fetch"
    /\ \E result \in {"rejected", "not ok", "ok"} :
           IF result = "ok"
           THEN submitPc' = "json" /\ UNCHANGED form
           ELSE submitPc' = "idle" /\ form' = catchFinally(form)
    /\ UNCHANGED <<requests, response, scorerVars, summaryVars, pc,
                   generatorVars, dashboardVars, parallelVars>>

\* await res.json() settles and handleSubmit runs to its end
JsonSettles ==
    /\ submitPc = "json"
    /\ \E data \in ResponseBodies :
           /\ response' = data
           /\ form' = handleSubmitData(form, data)
    /\ submitPc' = "idle"
    /\ UNCHANGED <<requests, scorerVars, summaryVars, pc,
                   generatorVars, dashboardVars, parallelVars>>

NextScanner == ChangeUpiId \/ Submit \/ FetchSettles \/ JsonSettles

SpecScanner == InitScanner /\ [][NextScanner]_vars

\* ------------------------------------------------------------------------
\* Specification of the level branch: the if / else if / else applied to
\* every score the clamp can let through
\* ------------------------------------------------------------------------
InitTier ==
    /\ tx = Null
    /\ risk = Null
    /\ score \in 0..ScoreCap
    /\ level = Null
    /\ props = NoProps
    /\ summary = Null
    /\ pc = "clamped"
    /\ NoGenerator /\ NoDashboard /\ NoParallel /\ NoScanner

Classify ==
    /\ pc = "clamped"
    /\ level' = riskLevel(score)
    /\ pc' = "classified"
    /\ UNCHANGED <<tx, risk, score, props, summary,
                   generatorVars, dashboardVars, parallelVars, scannerVars>>

NextTier == Classify

SpecTier == InitTier /\ [][NextTier]_vars

\* ------------------------------------------------------------------------
\* Claims about calculateRiskScore
\* ------------------------------------------------------------------------
AmountPoints(t) ==
    IF t.amount > 15000 THEN 35 ELSE IF t.amount > 5000 THEN 15 ELSE 0

BeneficiaryPoints(t) == IF t.isNewBeneficiary THEN 40 ELSE 0

TimingPoints(t) == IF t.isLateNight THEN 20 ELSE 0

DebitPoints(t) == IF t.type = "Debit" THEN 5 ELSE 0

OtherPoints(t) == BeneficiaryPoints(t) + TimingPoints(t) + DebitPoints(t)

Scored == pc = "scored"

\* C1: for every well-formed transaction the returned score is
\* min(A + B + T + D, 100) with A in {0, 15, 35} by amount tier, B = 40 for
\* a new beneficiary, T = 20 for late night, D = 5 for a Debit; amounts 5000
\* and 5001 contribute 0 and 15, amounts 15000 and 15001 contribute 15 and 35.
C1_ScoreIsClampedSum ==
    (Scored /\ WellFormed(tx)) =>
        /\ risk.score = Min(AmountPoints(tx) + OtherPoints(tx), 100)
        /\ tx.amount = 5000 => risk.score = OtherPoints(tx)
        /\ tx.amount = 5001 => risk.score = 15 + OtherPoints(tx)
        /\ tx.amount = 15000 => risk.score = 15 + OtherPoints(tx)
        /\ tx.amount = 15001 => risk.score = Min(35 + OtherPoints(tx), 100)

C1_Witness ==
    /\ Scored
    /\ tx = [amount |-> 15000, type |-> "Debit",
             isNewBeneficiary |-> TRUE, isLateNight |-> TRUE]
    /\ risk.score = 80

\* C2: every score returned by calculateRiskScore is an integer between 0
\* and 100, whatever the amount tier, flags and direction.
C2_ScoreInRange == Scored => risk.score \in 0..100

C2_Witness ==
    /\ Scored
    /\ WellFormed(tx)
    /\ AmountPoints(tx) + OtherPoints(tx) = 100
    /\ risk.score = 100

\* the text reported for each combination of fired label rules
ExpectedFactors(t) ==
    LET a == AmountPoints(t)
        b == t.isNewBeneficiary
        n == t.isLateNight
    IN CASE a = 35 /\ b /\ n ->
              "Large Amount (High), New/Untrusted Beneficiary, Unusual Transaction Time (Late Night)"
         [] a = 35 /\ b /\ ~n -> "Large Amount (High), New/Untrusted Beneficiary"
         [] a = 35 /\ ~b /\ n ->
              "Large Amount (High), Unusual Transaction Time (Late Night)"
         [] a = 35 /\ ~b /\ ~n -> "Large Amount (High)"
         [] a = 15 /\ b /\ n ->
              "Large Amount (Medium), New/Untrusted Beneficiary, Unusual Transaction Time (Late Night)"
         [] a = 15 /\ b /\ ~n -> "Large Amount (Medium), New/Untrusted Beneficiary"
         [] a = 15 /\ ~b /\ n ->
              "Large Amount (Medium), Unusual Transaction Time (Late Night)"
         [] a = 15 /\ ~b /\ ~n -> "Large Amount (Medium)"
         [] a = 0 /\ b /\ n ->
              "New/Untrusted Beneficiary, Unusual Transaction Time (Late Night)"
         [] a = 0 /\ b /\ ~n -> "New/Untrusted Beneficiary"
         [] a = 0 /\ ~b /\ n -> "Unusual Transaction Time (Late Night)"
         [] a = 0 /\ ~b /\ ~n -> "Standard Behavior"

NoLabelRuleFired(t) ==
    AmountPoints(t) = 0 /\ ~t.isNewBeneficiary /\ ~t.isLateNight

\* C4: the reported factors are the labels of the amount, beneficiary and
\* timing rules that fired, in that order; "Standard Behavior" is reported
\* iff none of the three fired; the Debit rule adds 5 and no label, so a
\* Debit-only transaction has score 5 and factors "Standard Behavior".
C4_FactorsAreFiredLabels ==
    (Scored /\ WellFormed(tx)) =>
        /\ risk.factors = ExpectedFactors(tx)
        /\ risk.factors = "Standard Behavior" <=> NoLabelRuleFired(tx)
        /\ (NoLabelRuleFired(tx) /\ tx.type = "Debit") => risk.score = 5

C4_Witness ==
    /\ Scored
    /\ tx = [amount |-> 50, type |-> "Debit",
             isNewBeneficiary |-> FALSE, isLateNight |-> FALSE]
    /\ risk.score = 5
    /\ risk.factors = "Standard Behavior"

\* the field a malformed record is rejected for
OffendingField(t) ==
    IF DOMAIN t # Fields THEN CHOOSE f \in Fields : f \notin DOMAIN t
    ELSE "amount"

InvalidTransaction(f) == [error |-> "InvalidTransaction", field |-> f]

\* C9: a transaction missing a required field or holding a negative amount
\* is rejected with an InvalidTransaction error naming the offending field
\* instead of being scored.
C9_MalformedRejected ==
    (Scored /\ ~WellFormed(tx)) =>
        risk = InvalidTransaction(OffendingField(tx))

\* the bands of the integration protocol text
ProtocolBand(s) ==
    IF s < 30 THEN "Low" ELSE IF s <= 65 THEN "Medium" ELSE "High"

\* C10: the level calculateRiskScore assigns to a transaction is the band
\* the integration protocol states for its score: Low below 30, Medium from
\* 30 to 65, High above 65.
C10_LevelMatchesProtocol == Scored => risk.level = ProtocolBand(risk.score)

C10_Witness ==
    /\ Scored
    /\ risk.score = 65
    /\ risk.level = "Medium"

\* the record carries isNewBeneficiary = true
IsNewBeneficiary(t) == "isNewBeneficiary" \in DOMAIN t /\ t.isNewBeneficiary

\* C16: a High level implies a new beneficiary (without one the score is
\* at most 60), and a new beneficiary implies Medium or High, never Low.
C16_HighNeedsNewBeneficiary ==
    Scored =>
        /\ risk.level = "High" => IsNewBeneficiary(tx)
        /\ ~IsNewBeneficiary(tx) => risk.score <= 60
        /\ IsNewBeneficiary(tx) => risk.level \in {"Medium", "High"}

C16_Witness ==
    /\ Scored
    /\ tx = [amount |-> 50, type |-> "Credit",
             isNewBeneficiary |-> TRUE, isLateNight |-> FALSE]
    /\ risk.score = 40
    /\ risk.level = "Medium"

\* ------------------------------------------------------------------------
\* Claim about the generator
\* ------------------------------------------------------------------------
LateHours == {23, 0, 1, 2, 3, 4, 5}

LateNightLabel == "Unusual Transaction Time (Late Night)"

\* C12: the isLateNight flag of a generated transaction is true iff its
\* hour is 23 or in 0..5 and false for every hour in 6..22, and the timing
\* rule (+20 and the late-night factor) fires exactly for those hours.
C12_LateNightHours ==
    /\ pc \in {"call", "scored"} =>
           /\ tx.isLateNight <=> draw.clock.hour \in LateHours
           /\ draw.clock.hour \in 6..22 => ~tx.isLateNight
    /\ Scored =>
           /\ risk.score = AmountPoints(tx) + BeneficiaryPoints(tx)
                  + DebitPoints(tx)
                  + (IF draw.clock.hour \in LateHours THEN 20 ELSE 0)
           /\ includes(risk.factors, LateNightLabel)
                  <=> draw.clock.hour \in LateHours

C12_Witness ==
    /\ Scored
    /\ draw.clock.hour = 23
    /\ tx.isLateNight
    /\ includes(risk.factors, LateNightLabel)

Rendered == pc = "rendered"

HasBatch == "transactions" \in DOMAIN props

BatchSize == IF HasBatch THEN Len(props.transactions) ELSE 0

\* the number of assessments of the batch at level lvl
NumAt(lvl) ==
    IF HasBatch
    THEN Cardinality({i \in 1..Len(props.transactions) :
                         props.transactions[i].risk.level = lvl})
    ELSE 0

AlertState ==
    /\ summary.riskMessage =
           "ALERT: " \o ToString(NumAt("High"))
               \o " transactions flagged as HIGH Risk."
    /\ summary.icon = "risk-summary-icon risk-summary-icon--alert"
    /\ summary.boxClass = "risk-summary risk-summary--alert"

OkState ==
    /\ summary.icon = "risk-summary-icon risk-summary-icon--ok"
    /\ summary.boxClass = "risk-summary risk-summary--ok"
    /\ summary.riskMessage =
           "Overall security is " \o ToString(summary.safePercentage)
               \o "%. No HIGH risk transactions found."

\* C5: the rendered summary is in the alert state (ALERT message, alert
\* icon, alert box class) iff the batch has at least one High assessment;
\* with no High assessment it is in the OK state whatever the Medium count.
C5_AlertIffHigh ==
    (Rendered /\ BatchSize > 0) =>
        /\ AlertState <=> NumAt("High") > 0
        /\ OkState <=> NumAt("High") = 0

C5_Witness ==
    /\ Rendered
    /\ NumAt("High") = 0
    /\ NumAt("Medium") = 2
    /\ OkState

\* C6: for a non-empty batch totalTransactions is the batch size,
\* highRiskCount and mediumRiskCount are the numbers of High and Medium
\* assessments, their sum is at most the total, and the number of Low
\* assessments is the total minus both.
C6_CountsPartitionBatch ==
    (Rendered /\ BatchSize > 0) =>
        /\ summary.totalTransactions = BatchSize
        /\ summary.highRiskCount = NumAt("High")
        /\ summary.mediumRiskCount = NumAt("Medium")
        /\ summary.highRiskCount + summary.mediumRiskCount
               <= summary.totalTransactions
        /\ NumAt("Low") = summary.totalTransactions
               - summary.highRiskCount - summary.mediumRiskCount

C6_Witness ==
    /\ Rendered
    /\ BatchSize = 5
    /\ summary.highRiskCount = 1
    /\ summary.mediumRiskCount = 1
    /\ NumAt("Low") = 3

OverallMessage(n) ==
    "Overall security is " \o ToString(n)
        \o "%. No HIGH risk transactions found."

\* C18: whenever the summary shows "Overall security is N%. No HIGH risk
\* transactions found." N is 100: that message is shown only when the
\* batch has no High assessment, and safePercentage is 100 iff it has
\* none, for every non-empty batch of up to 20 transactions.
C18_ShownPercentageIs100 ==
    (Rendered /\ BatchSize > 0) =>
        /\ summary.safePercentage = 100 <=> NumAt("High") = 0
        /\ summary.riskMessage \in {OverallMessage(n) : n \in 0..100}
               <=> NumAt("High") = 0
        /\ summary.riskMessage \in {OverallMessage(n) : n \in 0..100}
               => summary.riskMessage = OverallMessage(100)

C18_Witness ==
    /\ Rendered
    /\ BatchSize = 20
    /\ NumAt("High") = 0
    /\ NumAt("Medium") = 7
    /\ summary.riskMessage = OverallMessage(100)

\* ------------------------------------------------------------------------
\* Claims about the dashboard
\* ------------------------------------------------------------------------
FetchOutstanding == dashboard.started > dashboard.completed

IsScoredBatch(ts) ==
    /\ Len(ts) > 0
    /\ \A i \in 1..Len(ts) : ts[i].risk = calculateRiskScore(ts[i])

\* C13: starting a fetch sets isLoading and clears error, transactions and
\* isDataFetched; its timer callback eventually runs, and it ends with
\* isLoading = false having either set isDataFetched with the scored batch
\* or set an error with transactions left empty.
C13_FetchLifecycle ==
    /\ [][dashboard'.started > dashboard.started =>
             /\ dashboard'.isLoading
             /\ dashboard'.error = Null
             /\ dashboard'.transactions = <<>>
             /\ ~dashboard'.isDataFetched]_vars
    /\ [][dashboard'.completed > dashboard.completed =>
             /\ ~dashboard'.isLoading
             /\ \/ /\ dashboard'.isDataFetched
                   /\ IsScoredBatch(dashboard'.transactions)
                \/ /\ dashboard'.error # Null
                   /\ dashboard'.transactions = <<>>]_vars
    /\ \A k \in 1..MaxFetches :
           (dashboard.started >= k) ~> (dashboard.completed >= k)

C13_Witness ==
    /\ dashboard.started = 1
    /\ dashboard.completed = 1
    /\ ~dashboard.isLoading
    /\ dashboard.isDataFetched
    /\ IsScoredBatch(dashboard.transactions)

\* C15: whenever a scheduled fetch has not completed isLoading is true, so
\* summary and table are not displayed while a fetch is outstanding.
C15_LoadingWhileOutstanding ==
    FetchOutstanding => (dashboard.isLoading /\ ~contentShown(dashboard))

\* ------------------------------------------------------------------------
\* Claim about scoring a batch
\* ------------------------------------------------------------------------
AllScored == \A i \in 1..MockLoop : callPc[i] = "done"

\* C11: in whatever order and interleaving the records of a batch are
\* scored, each record receives the assessment calculateRiskScore gives to
\* that record alone, and the scored batch has the length, record order
\* and ids of the raw batch.
C11_ScoringOrderIndependent ==
    /\ \A i \in 1..MockLoop :
           callPc[i] = "done" =>
               /\ processedTransactions[i].risk =
                      calculateRiskScore(rawTransactions[i])
               /\ processedTransactions[i].id = rawTransactions[i].id
    /\ AllScored =>
           /\ Len(processedTransactions) = Len(rawTransactions)
           /\ processedTransactions = processTransactions(rawTransactions)

C11_Witness ==
    /\ AllScored
    /\ Len(rawTransactions) = MockLoop
    /\ processedTransactions[1].risk.level = "High"
    /\ processedTransactions[2].risk.level = "Low"

\* ------------------------------------------------------------------------
\* Claims about the scanner form
\* ------------------------------------------------------------------------
\* every spelling of "high" and of "medium" in upper and lower case
HighSpellings ==
    {a \o b \o c \o d :
        a \in {"h", "H"}, b \in {"i", "I"}, c \in {"g", "G"}, d \in {"h", "H"}}

MediumSpellings ==
    {a \o b \o c \o d \o e \o f :
        a \in {"m", "M"}, b \in {"e", "E"}, c \in {"d", "D"},
        d \in {"i", "I"}, e \in {"u", "U"}, f \in {"m", "M"}}

ExpectedRiskScore(row) ==
    CASE "risk_score" \in DOMAIN row -> row.risk_score
      [] "risk_score" \notin DOMAIN row /\ "riskScore" \in DOMAIN row ->
             row.riskScore
      [] OTHER -> 0

ExpectedLabel(row) ==
    IF "risk_level" \in DOMAIN row /\ row.risk_level \in HighSpellings
    THEN "HIGH"
    ELSE IF "risk_level" \in DOMAIN row /\ row.risk_level \in MediumSpellings
    THEN "MEDIUM"
    ELSE "LOW"

\* C14: after a successful handleSubmit the displayed transactions are the
\* rows of the response in order of non-increasing riskScore, riskScore
\* being the row's risk_score, else its riskScore, else 0, and each label
\* is HIGH or MEDIUM iff risk_level is that word in any case, else LOW.
C14_SortedByRiskScore ==
    Len(form.transactions) > 0 =>
        LET ts == form.transactions
            rows == response.rows
        IN /\ Len(ts) = Len(rows)
           /\ {ts[i].id : i \in 1..Len(ts)} = 1..Len(rows)
           /\ \A i \in 1..(Len(ts) - 1) : ts[i].riskScore >= ts[i + 1].riskScore
           /\ \A i \in 1..Len(ts) :
                  /\ ts[i].riskScore = ExpectedRiskScore(rows[ts[i].id])
                  /\ ts[i].riskLevel.label = ExpectedLabel(rows[ts[i].id])

C14_Witness ==
    /\ submitPc = "idle"
    /\ Len(form.transactions) = 2
    /\ form.transactions[1].id = 2
    /\ form.transactions[1].riskScore = 90
    /\ form.transactions[1].riskLevel.label = "HIGH"
    /\ form.transactions[2].riskScore = 0
    /\ form.transactions[2].riskLevel.label = "HIGH"

\* C17: a non-null error and a non-empty transactions list never hold
\* together; loading is false once a submit has completed, on every path;
\* a submit with an empty UPI ID sets an error and sends no request.
C17_ScannerState ==
    /\ [](~(form.error # Null /\ Len(form.transactions) > 0))
    /\ [](submitPc = "idle" => ~form.loading)
    /\ [][(form.upiId = "" /\ form'.upiId = "") =>
             /\ requests' = requests
             /\ submitPc' = "idle"
             /\ form' # form =>
                    form'.error = ErrorOf("Please enter a UPI ID.")]_vars

C17_Witness ==
    /\ submitPc = "idle"
    /\ form.upiId = ""
    /\ form.error = ErrorOf("Please enter a UPI ID.")
    /\ ~form.loading
    /\ requests = 0
====
